---------------------------- MODULE Spec2Model ----------------------------
(***************************************************************************)
(* A model of the palette editor of src/src/main.ts: the colour model, the *)
(* JSON (palette.v1) and GPL codecs, the store of palette items with its   *)
(* event handlers, the grid geometry and the PNG render operation.         *)
(*                                                                         *)
(* Text is a sequence of one-character strings.  JavaScript numbers that   *)
(* can hold a fraction (an item's index) are held in fixed point, as a     *)
(* count of halves: the integer n is 2*n, and n + 1/2 is 2*n + 1.          *)
(***************************************************************************)
EXTENDS Integers, Sequences, FiniteSets, TLC

VARIABLES
    items,      \* let items: PaletteItem[]            (main.ts:307)
    inIndex,    \* inIndex.value, the text of the index field
    status,     \* statusMsgEl.textContent, by kind of message
    download,   \* the last blob handed to downloadBlob
    cfg,        \* the values of the layout and render-scale fields
    png,        \* the render operation in flight, if any
    probe       \* input and result of a pure function under check

vars == <<items, inIndex, status, download, cfg, png, probe>>

----------------------------------------------------------------------------
(* Bounds of the model.                                                    *)

MaxItems == 2
MaxHexLen == 7
MaxLines == 3
MaxCount == 5
MaxRowLen == 3
MaxGap == 2
MaxScale == 2

----------------------------------------------------------------------------
(* Text.                                                                   *)

DigitChars == <<"0", "1", "2", "3", "4", "5", "6", "7", "8", "9">>
HexChars == DigitChars \o <<"a", "b", "c", "d", "e", "f">>
LowerChars == <<"a", "b", "c", "d", "e", "f", "g", "h", "i", "j", "k", "l", "m",
                "n", "o", "p", "q", "r", "s", "t", "u", "v", "w", "x", "y", "z">>
UpperChars == <<"A", "B", "C", "D", "E", "F", "G", "H", "I", "J", "K", "L", "M",
                "N", "O", "P", "Q", "R", "S", "T", "U", "V", "W", "X", "Y", "Z">>

Range(s) == {s[i] : i \in 1..Len(s)}

DigitSet == Range(DigitChars)
LowerSet == Range(LowerChars)

\* [0-9a-fA-F]
HexDigitSet ==
    DigitSet \cup {"a", "b", "c", "d", "e", "f"} \cup {"A", "B", "C", "D", "E", "F"}

\* \s of a regular expression and the characters trim() removes, among the
\* characters of the model
SpaceSet == {" ", "\t", "\n", "\r"}

DigitValOf == [c \in DigitSet |-> CHOOSE d \in 0..9 : DigitChars[d + 1] = c]

HexValOf ==
    [c \in HexDigitSet |->
        IF c \in DigitSet THEN DigitValOf[c]
        ELSE IF c \in LowerSet
             THEN 10 + (CHOOSE d \in 0..5 : LowerChars[d + 1] = c)
             ELSE 10 + (CHOOSE d \in 0..5 : UpperChars[d + 1] = c)]

UpperOf == [c \in LowerSet |-> UpperChars[CHOOSE i \in 1..26 : LowerChars[i] = c]]

IsDigit(c) == c \in DigitSet

IsHexDigit(c) == c \in HexDigitSet

IsSpace(c) == c \in SpaceSet

\* the characters the '.' of a regular expression does not match
IsLineTerminator(c) == c \in {"\n", "\r"}

DigitVal(c) == DigitValOf[c]

HexVal(c) == HexValOf[c]

UpperChar(c) == IF c \in LowerSet THEN UpperOf[c] ELSE c

\* String.prototype.toUpperCase
toUpperCase(s) == [i \in 1..Len(s) |-> UpperChar(s[i])]

RECURSIVE DropSpaceLeft(_)
DropSpaceLeft(s) ==
    IF s # <<>> /\ IsSpace(Head(s)) THEN DropSpaceLeft(Tail(s)) ELSE s

RECURSIVE DropSpaceRight(_)
DropSpaceRight(s) ==
    IF s # <<>> /\ IsSpace(s[Len(s)])
    THEN DropSpaceRight(SubSeq(s, 1, Len(s) - 1))
    ELSE s

\* String.prototype.trim
trim(s) == DropSpaceRight(DropSpaceLeft(s))

\* Number.prototype.toString(10) of an integer n >= 0
RECURSIVE Dec(_)
Dec(n) ==
    IF n < 10 THEN <<DigitChars[n + 1]>>
    ELSE Dec(n \div 10) \o <<DigitChars[(n % 10) + 1]>>

\* Number.prototype.toString(16) of an integer n >= 0
RECURSIVE Hex16(_)
Hex16(n) ==
    IF n < 16 THEN <<HexChars[n + 1]>>
    ELSE Hex16(n \div 16) \o <<HexChars[(n % 16) + 1]>>

\* String.prototype.padStart(w, c)
RECURSIVE padStart(_, _, _)
padStart(s, w, c) == IF Len(s) >= w THEN s ELSE padStart(<<c>> \o s, w, c)

\* the value of a run of decimal digits
RECURSIVE DecVal(_)
DecVal(s) ==
    IF s = <<>> THEN 0
    ELSE 10 * DecVal(SubSeq(s, 1, Len(s) - 1)) + DigitVal(s[Len(s)])

\* the length of the longest prefix of s made of digits / of white space
RECURSIVE DigitRun(_)
DigitRun(s) ==
    IF s # <<>> /\ IsDigit(Head(s)) THEN 1 + DigitRun(Tail(s)) ELSE 0

RECURSIVE SpaceRun(_)
SpaceRun(s) ==
    IF s # <<>> /\ IsSpace(Head(s)) THEN 1 + SpaceRun(Tail(s)) ELSE 0

Drop(s, n) == SubSeq(s, n + 1, Len(s))

StartsWith(s, p) == Len(s) >= Len(p) /\ SubSeq(s, 1, Len(p)) = p

\* parseInt(s, 10) || 0: leading white space, an optional sign, the leading
\* digits; NaN (no digit) and 0 both give 0
parseIntOr0(s) ==
    LET t == DropSpaceLeft(s)
        neg == t # <<>> /\ Head(t) = "-"
        u == IF t # <<>> /\ Head(t) \in {"-", "+"} THEN Tail(t) ELSE t
        v == DecVal(SubSeq(u, 1, DigitRun(u)))
    IN  IF neg THEN 0 - v ELSE v

Max2(a, b) == IF a >= b THEN a ELSE b
Min2(a, b) == IF a <= b THEN a ELSE b

clamp(n, a, b) == Max2(a, Min2(b, n))

----------------------------------------------------------------------------
(* ColorModel.                                                             *)

HexDigits == 6

Black == <<"#", "0", "0", "0", "0", "0", "0">>

\* /^#[0-9a-fA-F]{6}$/.test(h)
MatchesHex(h) ==
    /\ Len(h) = 1 + HexDigits
    /\ h[1] = "#"
    /\ \A i \in 2..Len(h) : IsHexDigit(h[i])

\* a normalization that keeps the case
normalizeHexKeepCase(hex) ==
    LET h == trim(hex)
    IN  IF MatchesHex(h) THEN h ELSE Black

normalizeHex(hex) ==
    LET h == trim(hex)
    IN  IF MatchesHex(h) THEN toUpperCase(h) ELSE Black

hexToRgb(hex) ==
    LET h == Drop(normalizeHex(hex), 1)
    IN  [r |-> 16 * HexVal(h[1]) + HexVal(h[2]),
         g |-> 16 * HexVal(h[3]) + HexVal(h[4]),
         b |-> 16 * HexVal(h[5]) + HexVal(h[6])]


----------------------------------------------------------------------------
(* Numbers in fixed point: a count of halves.                              *)

Whole(n) == 2 * n
IsWhole(x) == x % 2 = 0

\* Number.prototype.toString(10) of a number held in halves
NumToString(x) ==
    LET a == IF x < 0 THEN 0 - x ELSE x
    IN  (IF x < 0 THEN <<"-">> ELSE <<>>)
        \o Dec(a \div 2)
        \o (IF a % 2 = 1 THEN <<".", "5">> ELSE <<>>)

\* Number(s) || 0 of a text, for the numeric literals the fixed point can
\* hold: white space, an optional sign, digits, an optional ".5" (or ".0").
\* The empty text is 0 and every other text is NaN, so 0.
StringToNumberOr0(s) ==
    LET t == trim(s)
        neg == t # <<>> /\ Head(t) = "-"
        u == IF t # <<>> /\ Head(t) \in {"-", "+"} THEN Tail(t) ELSE t
        d == DigitRun(u)
        f == Drop(u, d)
        v == Whole(DecVal(SubSeq(u, 1, d)))
        w == IF f = <<".", "5">> THEN v + 1 ELSE v
    IN  IF d = 0 \/ f \notin {<<>>, <<".", "0">>, <<".", "5">>} THEN 0
        ELSE IF neg THEN 0 - w ELSE w

----------------------------------------------------------------------------
(* PaletteStore helpers.                                                   *)

\* the (name, index, hex) of an item, as the codecs write and read it
Entry(name, index, hex) == [name |-> name, index |-> index, hex |-> hex]
Triple(it) == Entry(it.name, it.index, it.hex)
Triples(s) == [i \in 1..Len(s) |-> Triple(s[i])]

\* one step of a stable insertion sort on index
RECURSIVE InsertByIndex(_, _)
InsertByIndex(sorted, it) ==
    IF sorted = <<>> THEN <<it>>
    ELSE IF sorted[Len(sorted)].index <= it.index THEN Append(sorted, it)
    ELSE Append(InsertByIndex(SubSeq(sorted, 1, Len(sorted) - 1), it),
                sorted[Len(sorted)])

\* s.slice().sort((a, b) => a.index - b.index): a stable sort
RECURSIVE SortByIndex(_)
SortByIndex(s) ==
    IF s = <<>> THEN <<>>
    ELSE InsertByIndex(SortByIndex(SubSeq(s, 1, Len(s) - 1)), s[Len(s)])

----------------------------------------------------------------------------
(* PaletteCodec: GPL.                                                      *)

LF == <<"\n">>
GimpPalette == <<"G", "I", "M", "P", " ", "P", "a", "l", "e", "t", "t", "e">>
NamePalette == <<"N", "a", "m", "e", ":", " ", "P", "a", "l", "e", "t", "t", "e">>
NamePrefix == <<"N", "a", "m", "e", ":">>
ColumnsPrefix == <<"C", "o", "l", "u", "m", "n", "s", ":">>
ColorPrefix == <<"C", "o", "l", "o", "r", " ">>

\* s.replace(/\s+/g, ' ')
RECURSIVE CollapseSpace(_)
CollapseSpace(s) ==
    IF s = <<>> THEN <<>>
    ELSE IF IsSpace(Head(s)) THEN <<" ">> \o CollapseSpace(Drop(s, SpaceRun(s)))
    ELSE <<Head(s)>> \o CollapseSpace(Tail(s))

\* a name that is trimmed and no more
GplNameTrimmed(name) == trim(name)

\* it.name.replace(/\s+/g, ' ').trim()
GplName(name) == trim(CollapseSpace(name))

Pad3(n) == padStart(Dec(n), 3, " ")

GplLine(it) ==
    LET c == hexToRgb(it.hex)
    IN  Pad3(c.r) \o <<" ">> \o Pad3(c.g) \o <<" ">> \o Pad3(c.b)
        \o <<"\t">> \o GplName(it.name)

\* lines.join('\n')
RECURSIVE JoinLines(_)
JoinLines(lines) ==
    IF lines = <<>> THEN <<>>
    ELSE IF Len(lines) = 1 THEN lines[1]
    ELSE lines[1] \o LF \o JoinLines(Tail(lines))

toGpl(its) ==
    LET sorted == SortByIndex(its)
        lines == <<GimpPalette, NamePalette, <<"#">>>>
                 \o [i \in 1..Len(sorted) |-> GplLine(sorted[i])]
    IN  JoinLines(lines) \o LF

\* text.replace(/\r\n/g, '\n')
RECURSIVE ReplaceCrLf(_)
ReplaceCrLf(s) ==
    IF s = <<>> THEN <<>>
    ELSE IF Len(s) >= 2 /\ s[1] = "\r" /\ s[2] = "\n"
         THEN LF \o ReplaceCrLf(Drop(s, 2))
    ELSE <<Head(s)>> \o ReplaceCrLf(Tail(s))

\* the length of the prefix of s before its first '\n'
RECURSIVE LineRun(_)
LineRun(s) == IF s # <<>> /\ Head(s) # "\n" THEN 1 + LineRun(Tail(s)) ELSE 0

\* s.split('\n')
RECURSIVE SplitLines(_)
SplitLines(s) ==
    LET n == LineRun(s)
    IN  IF n = Len(s) THEN <<s>>
        ELSE <<SubSeq(s, 1, n)>> \o SplitLines(Drop(s, n + 1))

\* line.match(/^(\d+)\s+(\d+)\s+(\d+)\s*(.*)$/): digits and white space
\* are disjoint classes, so the greedy match is the only one; '.' stops at
\* a line terminator and '$' is the end of the line
MatchLine(line) ==
    LET d1 == DigitRun(line)
        a1 == Drop(line, d1)
        w1 == SpaceRun(a1)
        b1 == Drop(a1, w1)
        d2 == DigitRun(b1)
        a2 == Drop(b1, d2)
        w2 == SpaceRun(a2)
        b2 == Drop(a2, w2)
        d3 == DigitRun(b2)
        a3 == Drop(b2, d3)
        rest == Drop(a3, SpaceRun(a3))
    IN  [ok |-> /\ d1 >= 1 /\ w1 >= 1 /\ d2 >= 1 /\ w2 >= 1 /\ d3 >= 1
                /\ \A i \in 1..Len(rest) : ~IsLineTerminator(rest[i]),
         m1 |-> SubSeq(line, 1, d1),
         m2 |-> SubSeq(b1, 1, d2),
         m3 |-> SubSeq(b2, 1, d3),
         m4 |-> rest]

\* the lines parseGpl passes over before it tries the pattern
SkippedLine(line) ==
    \/ line = <<>>
    \/ StartsWith(line, <<"#">>)
    \/ StartsWith(line, GimpPalette)
    \/ StartsWith(line, NamePrefix)
    \/ StartsWith(line, ColumnsPrefix)

\* (m[4] || `Color ${idx}`).trim() || `Color ${idx}`
GplDecodedName(m4, idx) ==
    LET dflt == ColorPrefix \o Dec(idx)
        n == trim(IF m4 = <<>> THEN dflt ELSE m4)
    IN  IF n = <<>> THEN dflt ELSE n

Hex2(n) == padStart(Hex16(n), 2, "0")

\* the item parseGpl pushes for a matched line
GplEntry(m, idx) ==
    LET r == clamp(parseIntOr0(m.m1), 0, 255)
        g == clamp(parseIntOr0(m.m2), 0, 255)
        b == clamp(parseIntOr0(m.m3), 0, 255)
    IN  Entry(GplDecodedName(m.m4, idx), Whole(idx),
              toUpperCase(<<"#">> \o Hex2(r) \o Hex2(g) \o Hex2(b)))

\* a loop in which a line that does not match takes an index all the same
RECURSIVE ParseGplLinesBySlot(_, _, _)
ParseGplLinesBySlot(lines, out, idx) ==
    IF lines = <<>> THEN out
    ELSE LET line == trim(Head(lines))
             m == MatchLine(line)
         IN  IF SkippedLine(line) THEN ParseGplLinesBySlot(Tail(lines), out, idx)
             ELSE IF ~m.ok THEN ParseGplLinesBySlot(Tail(lines), out, idx + 1)
             ELSE ParseGplLinesBySlot(Tail(lines),
                                      Append(out, GplEntry(m, idx)), idx + 1)

\* the loop of parseGpl over the lines left, with out and idx so far
RECURSIVE ParseGplLines(_, _, _)
ParseGplLines(lines, out, idx) ==
    IF lines = <<>> THEN out
    ELSE LET line == trim(Head(lines))
             m == MatchLine(line)
         IN  IF SkippedLine(line) \/ ~m.ok
             THEN ParseGplLines(Tail(lines), out, idx)
             ELSE ParseGplLines(Tail(lines), Append(out, GplEntry(m, idx)),
                                idx + 1)

parseGpl(text) == ParseGplLines(SplitLines(ReplaceCrLf(text)), <<>>, 0)

----------------------------------------------------------------------------
(* PaletteCodec: JSON.  A document is held as the tree JSON.parse gives,   *)
(* or as a text JSON.parse rejects; JSON.stringify followed by JSON.parse  *)
(* gives back the strings and finite numbers of a tree as they were.       *)

JAbsent == [t |-> "undefined", s |-> <<>>, n |-> 0]
JNull == [t |-> "null", s |-> <<>>, n |-> 0]
JTrue == [t |-> "true", s |-> <<>>, n |-> 0]
JStr(s) == [t |-> "string", s |-> s, n |-> 0]
JNum(x) == [t |-> "number", s |-> <<>>, n |-> x]

\* the values `v || d` replaces by d
Falsy(v) ==
    \/ v.t \in {"undefined", "null", "false"}
    \/ v.t = "string" /\ v.s = <<>>
    \/ v.t = "number" /\ v.n = 0

\* String(v)
JsToString(v) ==
    CASE v.t = "string" -> v.s
      [] v.t = "number" -> NumToString(v.n)
      [] v.t = "true" -> <<"t", "r", "u", "e">>
      [] v.t = "false" -> <<"f", "a", "l", "s", "e">>
      [] v.t = "null" -> <<"n", "u", "l", "l">>
      [] OTHER -> <<"u", "n", "d", "e", "f", "i", "n", "e", "d">>

\* Number(v) || 0
ToNumberOr0(v) ==
    CASE v.t = "number" -> v.n
      [] v.t = "string" -> StringToNumberOr0(v.s)
      [] v.t = "true" -> Whole(1)
      [] OTHER -> 0

MaxIndex == 999999

PaletteV1 == <<"p", "a", "l", "e", "t", "t", "e", ".", "v", "1">>

\* an element of items: an object with its three properties, or null
JObj(name, index, hex) ==
    [t |-> "object", name |-> name, index |-> index, hex |-> hex]
JNullElem == [t |-> "null", name |-> JAbsent, index |-> JAbsent, hex |-> JAbsent]

\* a document: parses is whether JSON.parse accepts the text, top the type
\* of the parsed value, kind its kind property, isArray whether its items
\* property is an array, elems the elements of that array
JDoc(top, kind, isArray, elems) ==
    [parses |-> TRUE, top |-> top, kind |-> kind, isArray |-> isArray,
     elems |-> elems]
JSyntaxError ==
    [parses |-> FALSE, top |-> "null", kind |-> JAbsent, isArray |-> FALSE,
     elems |-> <<>>]

\* a payload element that leaves the colour out
JsonElemNoHex(it) == JObj(JStr(it.name), JNum(it.index), JAbsent)

\* { name: x.name, index: x.index, hex: x.hex } of the saved payload
JsonElem(it) == JObj(JStr(it.name), JNum(it.index), JStr(it.hex))

\* the payload of the save handler, as written and read back
JsonEncode(its) ==
    LET sorted == SortByIndex(its)
    IN  JDoc("object", JStr(PaletteV1), TRUE,
             [i \in 1..Len(sorted) |-> JsonElem(sorted[i])])

\* the body of data.items.map((x) => ...), without the id
JsonEntry(x) ==
    Entry(JsToString(IF Falsy(x.name) THEN JStr(<<>>) ELSE x.name),
          clamp(ToNumberOr0(x.index), Whole(0), Whole(MaxIndex)),
          normalizeHex(JsToString(IF Falsy(x.hex) THEN JStr(Black) ELSE x.hex)))

\* data && data.kind === 'palette.v1' && Array.isArray(data.items)
JsonAccepted(doc) ==
    /\ doc.parses
    /\ doc.top = "object"
    /\ doc.kind = JStr(PaletteV1)
    /\ doc.isArray

\* reading x.name of a null element throws a TypeError
JsonElemThrows(x) == x.t = "null"

\* whether the try block of the load handler ends in its catch clause
JsonLoadThrows(doc) ==
    \/ ~JsonAccepted(doc)
    \/ \E i \in 1..Len(doc.elems) : JsonElemThrows(doc.elems[i])

\* the entries data.items.map(...) builds
JsonDecode(doc) == [i \in 1..Len(doc.elems) |-> JsonEntry(doc.elems[i])]

----------------------------------------------------------------------------
(* PaletteStore.                                                           *)

\* makeId(): a token that no item in `used` holds.  The source draws a
\* random number and the time; ids are opaque and only ever compared with
\* the ids of the stored items, so the least unused number stands for it.
makeId(used) == CHOOSE id \in 1..(Cardinality(used) + 1) :
                    /\ id \notin used
                    /\ \A j \in 1..(id - 1) : j \in used

Item(id, e) == [id |-> id, name |-> e.name, index |-> e.index, hex |-> e.hex]

\* the id: makeId() of the map of either load branch: the i-th item gets
\* an id the i - 1 items before it do not hold
WithIds(entries) ==
    [i \in 1..Len(entries) |-> Item(makeId(1..(i - 1)), entries[i])]

\* name: x.name, index: x.index, hex: normalizeHex(x.hex) of the GPL branch
GplLoadEntries(parsed) ==
    [i \in 1..Len(parsed) |->
        Entry(parsed[i].name, parsed[i].index, normalizeHex(parsed[i].hex))]

\* a find that never finds
FindIndexNever(its, index) == 0

\* items.find((x) => x.index === index): the position of the first item
\* with that index, 0 when there is none
FindIndex(its, index) ==
    IF \E k \in 1..Len(its) : its[k].index = index
    THEN CHOOSE k \in 1..Len(its) :
            /\ its[k].index = index
            /\ \A j \in 1..(k - 1) : its[j].index # index
    ELSE 0

\* an update that leaves the colour as it was
UpdateAtNameOnly(its, k, name, hex) == [its EXCEPT ![k].name = name]

\* existing.name = name; existing.hex = hex
UpdateAt(its, k, name, hex) == [its EXCEPT ![k].name = name, ![k].hex = hex]

\* items.filter((x) => x.id !== id)
RECURSIVE RemoveId(_, _)
RemoveId(its, id) ==
    IF its = <<>> THEN <<>>
    ELSE IF Head(its).id = id THEN RemoveId(Tail(its), id)
    ELSE <<Head(its)>> \o RemoveId(Tail(its), id)

\* a decode that stores each entry as it is built
ItemsAfterJsonLoadPartial(its, doc) ==
    IF ~JsonAccepted(doc) THEN its
    ELSE LET bad == {i \in 1..Len(doc.elems) : JsonElemThrows(doc.elems[i])}
             last == IF bad = {} THEN Len(doc.elems)
                     ELSE (CHOOSE i \in bad : \A j \in bad : i <= j) - 1
         IN  WithIds([i \in 1..last |-> JsonEntry(doc.elems[i])])

\* the items after the JSON branch of the load handler: the assignment to
\* items is the last step of the decode, so a throw leaves items as it was
ItemsAfterJsonLoad(its, doc) ==
    IF JsonLoadThrows(doc) THEN its ELSE WithIds(JsonDecode(doc))

Ids(its) == {its[k].id : k \in 1..Len(its)}

\* the items after addOrUpdate() with the name, index and hex it derived
\* from the fields
AddOrUpdateItems(its, name, index, hex) ==
    LET k == FindIndex(its, index)
    IN  IF k # 0 THEN UpdateAt(its, k, name, hex)
        ELSE Append(its, Item(makeId(Ids(its)), Entry(name, index, hex)))

----------------------------------------------------------------------------
(* The files a load can be given and the texts a user can type.            *)

Red == <<"#", "f", "f", "0", "0", "0", "0">>
Green == <<"#", "0", "0", "F", "F", "0", "0">>
Lime == <<"#", "0", "0", "f", "f", "0", "0">>

\* names as typed: empty, with white space around and inside
NameTexts == {<<>>, <<" ", "a", " ", " ", "b">>}

\* index field texts: negative, above the maximum
IndexTexts == {<<"-", "1">>, <<"1", "0", "0", "0", "0", "0", "0">>}

\* values of the colour field: a colour input gives '#' and six lower-case
\* hexadecimal digits
ColorTexts == {Red, Lime}

GplFile(text) == [ext |-> "gpl", text |-> text, doc |-> JSyntaxError]
JsonFile(doc) == [ext |-> "json", text |-> <<>>, doc |-> doc]

\* a GPL text with a header, CRLF line ends, a malformed line between two
\* valid ones, a channel above 255 and a line with no name
GplText1 ==
    GimpPalette \o <<"\r", "\n">>
    \o <<"#", "\n">>
    \o <<"2", "5", "5", " ", " ", " ", "0", " ", " ", " ", "0", "\t", "R", "e", "d", "\n">>
    \o <<"1", "2", " ", "x", "\n">>
    \o <<"0", " ", "0", " ", "3", "0", "0", "\r", "\n">>

GplFiles == {GplFile(GplText1)}

\* parseGpl over the texts of GplFiles, worked out once
ParsedGplFiles == [t \in {f.text : f \in GplFiles} |-> parseGpl(t)]

\* {"kind":"palette.v1","items":[{"name":"b","index":1.5,"hex":"#00FF00"},
\*                               {"name":7,"index":"-1.5"}]}
JsonDocA ==
    JDoc("object", JStr(PaletteV1), TRUE,
         <<JObj(JStr(<<"b">>), JNum(Whole(1) + 1), JStr(Green)),
           JObj(JNum(Whole(7)), JStr(<<"-", "1", ".", "5">>), JAbsent)>>)

\* {"kind":"palette.v1","items":[{"index":1000000,"hex":"bad"},
\*                               {"name":" a","index":999999.5,"hex":"#ff0000"}]}
JsonDocB ==
    JDoc("object", JStr(PaletteV1), TRUE,
         <<JObj(JAbsent, JNum(Whole(1000000)), JStr(<<"b", "a", "d">>)),
           JObj(JStr(<<" ", "a">>), JNum(Whole(999999) + 1), JStr(Red))>>)

\* {"kind":"palette.v1","items":[{"name":"b","index":0,"hex":"#00FF00"},null]}
JsonDocNullElem ==
    JDoc("object", JStr(PaletteV1), TRUE,
         <<JObj(JStr(<<"b">>), JNum(0), JStr(Green)), JNullElem>>)

\* {"kind":"not.palette","items":[]}
JsonDocKind ==
    JDoc("object", JStr(<<"n", "o", "t", ".", "p", "a", "l", "e", "t", "t", "e">>),
         TRUE, <<>>)

\* {"kind":"palette.v1","items":{"name":"b"}}
JsonDocNoArray ==
    JDoc("object", JStr(PaletteV1), FALSE, <<>>)

JsonFiles ==
    {JsonFile(JsonDocA), JsonFile(JsonDocB), JsonFile(JsonDocNullElem),
     JsonFile(JsonDocKind), JsonFile(JsonDocNoArray), JsonFile(JSyntaxError),
     JsonFile(JDoc("null", JAbsent, FALSE, <<>>))}

Files == GplFiles \cup JsonFiles

----------------------------------------------------------------------------
(* The event handlers of the store.                                        *)

NoDownload == [filename |-> "", text |-> <<>>, doc |-> JSyntaxError]

DefaultCfg ==
    [rowLen |-> 8, swW |-> 94, swH |-> 62, gapH |-> 2, gapV |-> 2,
     fontSize |-> 12, scale |-> 1]

NoPng == [pc |-> "idle"]

NoProbe == [fn |-> "none"]

StoreInit ==
    /\ items = <<>>
    /\ inIndex = <<"0">>
    /\ status = "Ready."
    /\ download = NoDownload

Init ==
    /\ StoreInit
    /\ cfg = DefaultCfg
    /\ png = NoPng
    /\ probe = NoProbe

\* clamp(parseInt(inIndex.value || '0', 10) || 0, 0, 999999)
IndexOf(indexText) ==
    Whole(clamp(parseIntOr0(IF indexText = <<>> THEN <<"0">> ELSE indexText),
                0, MaxIndex))

\* btnAdd click: addOrUpdate() with the name and colour fields as typed;
\* the index field holds indexText
addOrUpdate(nameText, indexText, colorText) ==
    LET name == trim(nameText)
        index == IndexOf(indexText)
        hex == normalizeHex(colorText)
        existing == FindIndex(items, index) # 0
    IN  /\ existing \/ Len(items) < MaxItems
        /\ items' = AddOrUpdateItems(items, name, index, hex)
        /\ status' = IF existing THEN "Updated index" ELSE "Added index"
        /\ inIndex' = Dec(Len(items'))
        /\ UNCHANGED <<download, cfg, png, probe>>

\* the click handler of the delete button of the swatch of item id
removeById(id) ==
    /\ \E k \in 1..Len(items) : items[k].id = id
    /\ items' = RemoveId(items, id)
    /\ UNCHANGED <<inIndex, status, download, cfg, png, probe>>

\* btnReset click
reset ==
    /\ items' = <<>>
    /\ inIndex' = <<"1">>
    /\ status' = "Reset."
    /\ UNCHANGED <<download, cfg, png, probe>>

\* btnSave click with the format field at fmt
save(fmt) ==
    /\ IF fmt = "gpl"
       THEN /\ download' = [filename |-> "palette.gpl", text |-> toGpl(items),
                            doc |-> JSyntaxError]
            /\ status' = "Saved palette.gpl"
       ELSE /\ download' = [filename |-> "palette.json", text |-> <<>>,
                            doc |-> JsonEncode(items)]
            /\ status' = "Saved palette.json"
    /\ UNCHANGED <<items, inIndex, cfg, png, probe>>

\* fileInput change, from the text of file f on: nothing of the state is
\* read before it, so the wait for the text is not a step of its own
load(f) ==
    /\ IF f.ext = "gpl"
       THEN LET parsed == IF f.text \in DOMAIN ParsedGplFiles
                          THEN ParsedGplFiles[f.text] ELSE parseGpl(f.text)
            IN  /\ Len(parsed) <= MaxItems
                /\ items' = WithIds(GplLoadEntries(parsed))
                /\ status' = "Loaded colors from GPL"
       ELSE /\ Len(f.doc.elems) <= MaxItems
            /\ items' = ItemsAfterJsonLoad(items, f.doc)
            /\ status' = IF JsonLoadThrows(f.doc) THEN "Load error"
                         ELSE "Loaded colors from JSON"
    /\ UNCHANGED <<inIndex, download, cfg, png, probe>>

AddStep ==
    \E n \in NameTexts, i \in IndexTexts \cup {inIndex}, c \in ColorTexts :
        addOrUpdate(n, i, c)

RemoveStep == \E k \in 1..Len(items) : removeById(items[k].id)

SaveStep == \E fmt \in {"json", "gpl"} : save(fmt)

LoadStep == \E f \in Files : load(f)

LoadGplStep == \E f \in GplFiles : load(f)

Next ==
    \/ AddStep
    \/ RemoveStep
    \/ reset
    \/ LoadStep

Spec == Init /\ [][Next]_vars

\* the store without JSON loads: every collection starts empty or as a
\* GPL load left it
NextNoJson ==
    \/ AddStep
    \/ RemoveStep
    \/ reset
    \/ LoadGplStep

SpecNoJson == Init /\ [][NextNoJson]_vars

----------------------------------------------------------------------------
(* Claims on the store.                                                    *)

\* C1: in every store state, addOrUpdate with an index some stored item
\* has keeps the number of items, keeps that item's id and index, sets its
\* name and hex to the new trimmed name and normalized hex and leaves every
\* other item as it was; with an index no stored item has it appends
\* exactly one item, with an id no stored item has, and leaves the existing
\* items as they were.
C1_AddOrUpdateContract ==
    \A n \in NameTexts, i \in IndexTexts \cup {inIndex}, c \in ColorTexts :
        LET index == IndexOf(i)
            after == AddOrUpdateItems(items, trim(n), index, normalizeHex(c))
            hits == {k \in 1..Len(items) : items[k].index = index}
        IN  IF hits # {}
            THEN /\ Len(after) = Len(items)
                 /\ \E k \in hits :
                      /\ after[k] = [id |-> items[k].id, name |-> trim(n),
                                     index |-> index, hex |-> normalizeHex(c)]
                      /\ \A j \in (1..Len(items)) \ {k} : after[j] = items[j]
            ELSE /\ Len(after) = Len(items) + 1
                 /\ SubSeq(after, 1, Len(items)) = items
                 /\ Triple(after[Len(after)])
                      = Entry(trim(n), index, normalizeHex(c))
                 /\ after[Len(after)].id \notin Ids(items)

\* an update has acted on a store that holds another item as well, and the
\* colour it wrote is not the fallback
C1_Witness ==
    /\ status = "Updated index"
    /\ Len(items) = 2
    /\ \E k \in 1..2 : items[k].hex # Black

\* C2: a load whose decode fails (a text that is no JSON, a document that
\* is no object of kind palette.v1 with an items array, an element that
\* cannot be decoded) ends in the error outcome and leaves items as it was.
C2_FailedLoadKeepsItems ==
    [][\A f \in Files :
        (/\ f.ext = "json"
         /\ \/ ~f.doc.parses
            \/ f.doc.top # "object"
            \/ f.doc.kind # JStr(PaletteV1)
            \/ ~f.doc.isArray
            \/ \E i \in 1..Len(f.doc.elems) : f.doc.elems[i].t = "null"
         /\ load(f))
        => (items' = items /\ status' = "Load error")]_vars

\* a load has failed on a store that holds items
C2_Witness == status = "Load error" /\ items # <<>>

\* C8: without a JSON load, no two stored items have the same index.
C8_IndexUnique ==
    \A i, j \in 1..Len(items) : i # j => items[i].index # items[j].index

\* an update has hit one of two stored items
C8_Witness == Len(items) = 2 /\ status = "Updated index"

\* C9: every stored item's index is an integer from 0 to 999999.
C9_IndexBound ==
    \A k \in 1..Len(items) :
        /\ IsWhole(items[k].index)
        /\ Whole(0) <= items[k].index
        /\ items[k].index <= Whole(MaxIndex)

----------------------------------------------------------------------------
(* Save and load of the saved file.  A save leaves the store as it is, so  *)
(* the round trips are run from every collection a JSON load of a bounded  *)
(* document leaves in a fresh store.                                       *)

\* names of stored items: empty, white space only, digits, white space
\* inside
RoundTripNames == {<<>>, <<" ">>, <<"7">>, <<"a", " ", "\n", "b">>}

RoundTripElems ==
    {JObj(JStr(n), JNum(x), JStr(h)) :
        n \in RoundTripNames, x \in {Whole(1), Whole(1) + 1}, h \in {Red, Green}}

RoundTripDocs ==
    UNION {{JDoc("object", JStr(PaletteV1), TRUE, e) :
                e \in [1..k -> RoundTripElems]} : k \in 0..MaxItems}

InitRoundTrip ==
    /\ \E d \in RoundTripDocs : items = ItemsAfterJsonLoad(<<>>, d)
    /\ inIndex = <<"0">>
    /\ status = "Loaded colors from JSON"
    /\ download = NoDownload
    /\ cfg = DefaultCfg
    /\ png = NoPng
    /\ probe = NoProbe

\* the downloaded blob as the file a later load is given
FileOf(d) ==
    [ext |-> IF d.filename = "palette.gpl" THEN "gpl" ELSE "json",
     text |-> d.text, doc |-> d.doc]

\* fileInput change with the file the last save wrote
loadDownload ==
    /\ download # NoDownload
    /\ load(FileOf(download))

NextRoundTrip ==
    \/ SaveStep
    \/ loadDownload

SpecRoundTrip == InitRoundTrip /\ [][NextRoundTrip]_vars

GplRoundTripEntry(it, k) ==
    Entry(IF GplName(it.name) = <<>> THEN ColorPrefix \o Dec(k - 1)
          ELSE GplName(it.name),
          Whole(k - 1), it.hex)

\* C4 as amended: loading the GPL file a save wrote gives as many items, in
\* ascending index order, with the hex of each kept, the indices 0..n-1, and
\* each name collapsed and trimmed or, when that leaves it empty, replaced
\* by "Color k"; the GPL text of the result is that of the saved collection
\* if every name is non-empty after trimming.
C4_GplRoundTripAmended ==
    [][(/\ download.filename = "palette.gpl"
        /\ download.text = toGpl(items)
        /\ loadDownload)
       => LET sorted == SortByIndex(items)
          IN  /\ Len(items') = Len(items)
              /\ \A k \in 1..Len(items) :
                    Triple(items'[k]) = GplRoundTripEntry(sorted[k], k)
              /\ (\A k \in 1..Len(items) : trim(items[k].name) # <<>>)
                    => toGpl(items') = toGpl(items)]_vars

\* a GPL file has been saved and loaded back into a store of two items, one
\* of which had got a default name
C4_Witness ==
    /\ status = "Loaded colors from GPL"
    /\ download.filename = "palette.gpl"
    /\ Len(items) = 2
    /\ items[1].name = <<"7">>
    /\ items[2].name = ColorPrefix \o <<"1">>

\* C4 as claimed: the load gives the same (name, hex) pairs in ascending
\* index order with the indices 0..n-1, and the GPL text of the result is
\* that of the saved collection.
C4_GplRoundTrip ==
    [][(/\ download.filename = "palette.gpl"
        /\ download.text = toGpl(items)
        /\ loadDownload)
       => LET sorted == SortByIndex(items)
          IN  /\ Len(items') = Len(items)
              /\ \A k \in 1..Len(items) :
                    Triple(items'[k])
                      = Entry(sorted[k].name, Whole(k - 1), sorted[k].hex)
              /\ toGpl(items') = toGpl(items)]_vars

----------------------------------------------------------------------------
(* GridLayout and the Rasterizer.                                          *)

\* a division that rounds down
FloorDiv(a, b) == a \div b

\* Math.ceil(a / b)
CeilDiv(a, b) == (a + b - 1) \div b

\* cols and rows of renderPng
Cols(rowLen) == Max2(1, rowLen)
Rows(count, cols) == Max2(1, CeilDiv(count, cols))

CanvasWidth(cols, swW, gapH) == cols * swW + Max2(0, cols - 1) * gapH
CanvasHeight(rows, swH, gapV) == rows * swH + Max2(0, rows - 1) * gapV

\* the corner of the cell of sequence position i (from 0)
CellX(i, cols, swW, gapH) == (i % cols) * (swW + gapH)
CellY(i, cols, swH, gapV) == (i \div cols) * (swH + gapV)

\* the canvas renderPng has drawn when it calls toBlob: its size, the font
\* size and, for each item in order, the rectangle filled with the item's
\* hex and the name drawn at (tx, ty), clipped to that rectangle.  The
\* colour of the text is left out.
renderPng(its, rowLen, swW, swH, gapH, gapV, fontSizePx) ==
    LET cols == Cols(rowLen)
        rows == Rows(Len(its), cols)
    IN  [width |-> CanvasWidth(cols, swW, gapH),
         height |-> CanvasHeight(rows, swH, gapV),
         fontPx |-> clamp(fontSizePx, 6, Max2(6, swH)),
         cells |-> [k \in 1..Len(its) |->
            LET x == CellX(k - 1, cols, swW, gapH)
                y == CellY(k - 1, cols, swH, gapV)
            IN  [x |-> x, y |-> y, w |-> swW, h |-> swH,
                 fill |-> its[k].hex, text |-> its[k].name,
                 tx |-> x + 2, ty |-> y + (swH \div 2)]]]

\* clamp(parseInt(field.value || 'd', 10) || d, lo, hi) of a field that
\* holds the integer v; an empty field and a text that is no number read
\* as 0 does
ReadField(v, d, lo, hi) == clamp(IF v = 0 THEN d ELSE v, lo, hi)

\* the values the click handler of btnPng reads from the fields
ReadCfg(c) ==
    [rowLen |-> ReadField(c.rowLen, 8, 1, 256),
     swW |-> ReadField(c.swW, 96, 8, 1024),
     swH |-> ReadField(c.swH, 64, 8, 1024),
     gapH |-> ReadField(c.gapH, 0, 0, 1024),
     gapV |-> ReadField(c.gapV, 0, 0, 1024),
     scale |-> ReadField(c.scale, 1, 1, 16),
     fontSize |-> ReadField(c.fontSize, 12, 6, 256)]

\* the user sets the row length field
setRowLen(v) ==
    /\ cfg' = [cfg EXCEPT !.rowLen = v]
    /\ UNCHANGED <<items, inIndex, status, download, png, probe>>

\* btnPng click, up to `await document.fonts.ready`: the fields are read.
\* probe keeps the items of this moment for the claims; no handler reads it.
pngClick ==
    /\ png.pc = "idle"
    /\ png' = [pc |-> "fonts", conf |-> ReadCfg(cfg)]
    /\ probe' = [fn |-> "png", itemsAtClick |-> items]
    /\ UNCHANGED <<items, inIndex, status, download, cfg>>

\* the fonts are ready: the items are sorted and handed to renderPng, which
\* draws them and calls toBlob, or throws for want of a 2D context
pngFontsReady ==
    /\ png.pc = "fonts"
    /\ \/ /\ png' = [pc |-> "encoding", conf |-> png.conf,
                     canvas |-> renderPng(SortByIndex(items),
                                          png.conf.rowLen,
                                          png.conf.swW * png.conf.scale,
                                          png.conf.swH * png.conf.scale,
                                          png.conf.gapH * png.conf.scale,
                                          png.conf.gapV * png.conf.scale,
                                          png.conf.fontSize * png.conf.scale)]
          /\ UNCHANGED status
          /\ UNCHANGED probe
       \/ /\ png' = NoPng
          /\ status' = "PNG error"
          /\ probe' = NoProbe
    /\ UNCHANGED <<items, inIndex, download, cfg>>

\* the callback of toBlob: the blob is downloaded, or there is none.  The
\* bytes of the image are not modelled.
pngBlob ==
    /\ png.pc = "encoding"
    /\ png' = NoPng
    /\ probe' = NoProbe
    /\ \/ /\ download' = [filename |-> "palette.png", text |-> <<>>,
                          doc |-> JSyntaxError]
          /\ status' = "Rendered palette.png"
       \/ /\ status' = "PNG error"
          /\ UNCHANGED download
    /\ UNCHANGED <<items, inIndex, cfg>>

\* the store under a render: one name, two colours, the index field as the
\* handlers leave it
AddStepPng == \E c \in ColorTexts : addOrUpdate(<<"7">>, inIndex, c)

SetCfgStep == \E v \in 1..MaxRowLen : setRowLen(v)

NextPng ==
    \/ AddStepPng
    \/ RemoveStep
    \/ reset
    \/ SetCfgStep
    \/ pngClick
    \/ pngFontsReady
    \/ pngBlob

SpecPng == Init /\ [][NextPng]_vars

\* C7: what a render draws is the items, sorted by index, that the store
\* held when the render was started.
C7_RenderSnapshot ==
    png.pc = "encoding" =>
        [k \in 1..Len(png.canvas.cells) |->
            [name |-> png.canvas.cells[k].text, hex |-> png.canvas.cells[k].fill]]
        = [k \in 1..Len(probe.itemsAtClick) |->
            [name |-> SortByIndex(probe.itemsAtClick)[k].name,
             hex |-> SortByIndex(probe.itemsAtClick)[k].hex]]

----------------------------------------------------------------------------
(* The render alone, from every layout of a bounded family.                *)

MinSwatch == 8

\* the store after a load of a GPL text of n lines "0 0 0"
LoadedBlack(n) ==
    WithIds(GplLoadEntries(
        [k \in 1..n |-> Entry(ColorPrefix \o Dec(k - 1), Whole(k - 1), Black)]))

InitRender ==
    /\ \E n \in 0..MaxCount : items = LoadedBlack(n)
    /\ inIndex = <<"0">>
    /\ status = "Loaded colors from GPL"
    /\ download = NoDownload
    /\ \E r \in 1..MaxRowLen, w \in {MinSwatch, MinSwatch + 3},
          h \in {MinSwatch, MinSwatch + 2}, gh \in 0..MaxGap, gv \in 0..MaxGap,
          sc \in 1..MaxScale :
          cfg = [rowLen |-> r, swW |-> w, swH |-> h, gapH |-> gh, gapV |-> gv,
                 fontSize |-> 12, scale |-> sc]
    /\ png = NoPng
    /\ probe = NoProbe

NextRender ==
    \/ pngClick
    \/ pngFontsReady
    \/ pngBlob

SpecRender == InitRender /\ [][NextRender]_vars

\* two rectangles that share no pixel
Disjoint(a, b) ==
    \/ a.x + a.w <= b.x
    \/ b.x + b.w <= a.x
    \/ a.y + a.h <= b.y
    \/ b.y + b.h <= a.y

\* C10: on the canvas of a render, every cell lies inside the canvas, the
\* cells of two positions do not overlap, and the canvas is scale times as
\* wide and as high as the layout of the fields at scale 1.
C10_GridGeometry ==
    png.pc = "encoding" =>
        LET c == png.canvas
            f == png.conf
            cols == IF f.rowLen >= 1 THEN f.rowLen ELSE 1
            full == (Len(items) + cols - 1) \div cols
            rows == IF full >= 1 THEN full ELSE 1
        IN  /\ Len(c.cells) = Len(items)
            /\ \A k \in 1..Len(c.cells) :
                  /\ c.cells[k].x >= 0 /\ c.cells[k].y >= 0
                  /\ c.cells[k].w = f.swW * f.scale
                  /\ c.cells[k].h = f.swH * f.scale
                  /\ c.cells[k].x + c.cells[k].w <= c.width
                  /\ c.cells[k].y + c.cells[k].h <= c.height
            /\ \A j, k \in 1..Len(c.cells) :
                  j # k => Disjoint(c.cells[j], c.cells[k])
            /\ c.width = f.scale * (cols * f.swW + (cols - 1) * f.gapH)
            /\ c.height = f.scale * (rows * f.swH + (rows - 1) * f.gapV)

\* a canvas of several rows, the last one not full, with gaps, at a scale
\* above 1
C10_Witness ==
    /\ png.pc = "encoding"
    /\ Len(png.canvas.cells) = 5
    /\ png.conf.rowLen = 3
    /\ png.conf.scale = 2
    /\ png.conf.gapH = 1
    /\ png.conf.gapV = 2

----------------------------------------------------------------------------
(* normalizeHex alone, on every text of a bounded family.                  *)

HexAlphabet == {"#", "a", "9", "G"}

HexTexts ==
    {lead \o body \o trail :
        lead \in {<<>>, <<" ">>}, trail \in {<<>>, <<"\n">>},
        body \in UNION {[1..k -> HexAlphabet] : k \in 0..MaxHexLen}}

InitHex ==
    /\ StoreInit
    /\ cfg = DefaultCfg
    /\ png = NoPng
    /\ \E x \in HexTexts : probe = [fn |-> "normalizeHex", x |-> x, calls |-> 0]

\* normalizeHex(x), and then normalizeHex of what it gave
hexOnce ==
    /\ probe.fn = "normalizeHex" /\ probe.calls = 0
    /\ probe' = [fn |-> "normalizeHex", x |-> probe.x, calls |-> 1,
                 once |-> normalizeHex(probe.x)]
    /\ UNCHANGED <<items, inIndex, status, download, cfg, png>>

hexTwice ==
    /\ probe.fn = "normalizeHex" /\ probe.calls = 1
    /\ probe' = [fn |-> "normalizeHex", x |-> probe.x, calls |-> 2,
                 once |-> probe.once, twice |-> normalizeHex(probe.once)]
    /\ UNCHANGED <<items, inIndex, status, download, cfg, png>>

NextHex ==
    \/ hexOnce
    \/ hexTwice

SpecHex == InitHex /\ [][NextHex]_vars

\* '#' and exactly six hexadecimal digits
IsHexCode(x) ==
    /\ Len(x) = 7
    /\ x[1] = "#"
    /\ \A i \in 2..7 : x[i] \in {"0", "1", "2", "3", "4", "5", "6", "7", "8", "9",
                                 "a", "b", "c", "d", "e", "f",
                                 "A", "B", "C", "D", "E", "F"}

\* x without the white space at its ends
Stripped(x) ==
    LET inner == {i \in 1..Len(x) : x[i] \notin {" ", "\t", "\n", "\r"}}
    IN  IF inner = {} THEN <<>>
        ELSE SubSeq(x, CHOOSE i \in inner : \A j \in inner : i <= j,
                       CHOOSE i \in inner : \A j \in inner : i >= j)

----------------------------------------------------------------------------
(* parseGpl alone, on every text of a bounded family of lines.             *)

GplLineTexts ==
    {<<"2", "5", "5", " ", " ", " ", "0", " ", " ", " ", "0", "\t", "R", "e", "d">>,
     <<" ", "0", " ", "0", " ", "3", "0", "0">>,
     <<"1", " ", "2", " ", "3", "4">>,
     <<"1", "2", " ", "x">>,
     <<"1", " ", "2", " ", "3", " ", "a", "\r", "b">>,
     <<>>,
     <<"#", " ", "1", " ", "2", " ", "3">>,
     GimpPalette,
     ColumnsPrefix \o <<" ", "2">>}

\* lines with each its line end after it
RECURSIVE WithLineEnds(_, _)
WithLineEnds(lines, eol) ==
    IF lines = <<>> THEN <<>>
    ELSE Head(lines) \o eol \o WithLineEnds(Tail(lines), eol)

InitGpl ==
    /\ StoreInit
    /\ cfg = DefaultCfg
    /\ png = NoPng
    /\ \E k \in 0..MaxLines : \E lines \in [1..k -> GplLineTexts] :
       \E eol \in {<<"\n">>, <<"\r", "\n">>} :
          probe = [fn |-> "parseGpl", lines |-> lines, eol |-> eol,
                   calls |-> 0]

\* parseGpl of the text of the lines
gplParse ==
    /\ probe.fn = "parseGpl" /\ probe.calls = 0
    /\ probe' = [fn |-> "parseGpl", lines |-> probe.lines, eol |-> probe.eol,
                 calls |-> 1,
                 out |-> parseGpl(WithLineEnds(probe.lines, probe.eol))]
    /\ UNCHANGED <<items, inIndex, status, download, cfg, png>>

NextGpl == gplParse

SpecGpl == InitGpl /\ [][NextGpl]_vars

\* the lines parseGpl takes an item from: not blank, no header or comment,
\* and of the pattern
Accepted(line) ==
    /\ ~SkippedLine(trim(line))
    /\ MatchLine(trim(line)).ok

\* C5: parseGpl gives one item for each line that is neither blank, nor a
\* header or comment, nor a mismatch of the pattern, in file order, the
\* k-th of them (from 0) with index k, and with the name "Color k" when the
\* line has no name.
C5_GplDecode ==
    probe.fn = "parseGpl" /\ probe.calls = 1 =>
        LET acc == SelectSeq(probe.lines, Accepted)
        IN  /\ Len(probe.out) = Len(acc)
            /\ \A k \in 1..Len(acc) :
                  LET m == MatchLine(trim(acc[k]))
                  IN  /\ probe.out[k].index = Whole(k - 1)
                      /\ probe.out[k].hex
                           = toUpperCase(<<"#">>
                                \o Hex2(clamp(DecVal(m.m1), 0, 255))
                                \o Hex2(clamp(DecVal(m.m2), 0, 255))
                                \o Hex2(clamp(DecVal(m.m3), 0, 255)))
                      /\ probe.out[k].name
                           = IF m.m4 = <<>> THEN ColorPrefix \o Dec(k - 1)
                             ELSE m.m4

\* a malformed line stood between two valid ones, the second without a name
C5_Witness ==
    /\ probe.fn = "parseGpl" /\ probe.calls = 1
    /\ Len(probe.lines) = 3
    /\ probe.lines[2] = <<"1", "2", " ", "x">>
    /\ Len(probe.out) = 2
    /\ probe.out[1].name = <<"R", "e", "d">>
    /\ probe.out[2].index = Whole(1)
    /\ probe.out[2].name = ColorPrefix \o <<"1">>

=============================================================================
